---- MODULE Spec2Model ----
(***************************************************************************)
(* The benchmark threshold checker, scripts/bench_check.py.                *)
(*                                                                         *)
(* One invocation is the straight-line run of main(): parse the command    *)
(* line, resolve the path, test it for existence, open and json.load it,   *)
(* extract mean.point_estimate, convert ns to ms, print, compare, return.  *)
(* Each statement group of main() is one action, so that the order of the  *)
(* file-system calls and of the printed lines is part of the behaviour.    *)
(* An exception nobody catches ends the interpreter with a traceback on    *)
(* the error stream and exit status 1; argparse ends the process itself    *)
(* with status 0 (--help) or 2 (a command line it rejects).                *)
(*                                                                         *)
(* Strings are sequences of chunks: the chunk "/" is the separator, every  *)
(* other chunk is a run of characters without a separator.  Floats are     *)
(* exact fractions num/den, plus nan: the rounding of a double is not      *)
(* modelled.  A file's text is given by the value json.load makes of it.   *)
(***************************************************************************)
EXTENDS Integers, Sequences, FiniteSets, TLC

VARIABLES
    fs,       \* the file system: canonical path -> file state
    argv,     \* the command line of the current invocation
    pc,       \* the statement of main() the invocation is at
    args,     \* argparse's namespace (name, threshold_ms, path)
    data,     \* the value json.load returned
    mean_ns,  \* data.get("mean", {}).get("point_estimate")
    mean_ms,  \* mean_ns / 1_000_000.0
    out,      \* the lines printed so far, both streams, in order
    exit,     \* <<>> while running, <<code>> once the process has ended
    trace,    \* the file-system calls made so far, in order
    memo      \* <<>> or <<r>>: one earlier invocation, kept for comparison

vars == <<fs, argv, pc, args, data, mean_ns, mean_ms, out, exit, trace, memo>>

(***************************************************************************)
(* Bounds                                                                  *)
(***************************************************************************)
\* At most this many paths of the file system hold something.
MaxFiles == 1

(***************************************************************************)
(* Strings and paths                                                       *)
(***************************************************************************)
Sep == "/"

StartsWithSep(s) == s /= <<>> /\ Head(s) = Sep

EndsWithSep(s) == s /= <<>> /\ s[Len(s)] = Sep

\* One round of the loop of posixpath.join: an absolute component discards
\* what was joined so far; a separator is put in unless one is there.
JoinStep(path, b) ==
    IF StartsWithSep(b) THEN b
    ELSE IF path = <<>> \/ EndsWithSep(path) THEN path \o b
    ELSE path \o <<Sep>> \o b

RECURSIVE JoinFrom(_, _)
JoinFrom(path, ps) ==
    IF ps = <<>> THEN path ELSE JoinFrom(JoinStep(path, Head(ps)), Tail(ps))

\* os.path.join(a, *p)
Join(parts) == JoinFrom(Head(parts), Tail(parts))

\* The kernel's path walk takes a run of separators for one separator.
RECURSIVE Canonical(_)
Canonical(p) ==
    IF Len(p) < 2 THEN p
    ELSE IF p[1] = Sep /\ p[2] = Sep THEN Canonical(Tail(p))
    ELSE <<Head(p)>> \o Canonical(Tail(p))

(***************************************************************************)
(* Floats                                                                  *)
(***************************************************************************)
Float(n, d) == [t |-> "num", num |-> n, den |-> d]

NaN == [t |-> "nan", num |-> 0, den |-> 1]

NoFloat == [t |-> "none", num |-> 0, den |-> 1]

\* a > b on floats: false when either side is nan.
FloatGT(a, b) ==
    /\ a.t = "num"
    /\ b.t = "num"
    /\ a.num * b.den > b.num * a.den

(***************************************************************************)
(* JSON values, as json.load returns them                                  *)
(***************************************************************************)
JNull == [t |-> "null"]

JBool(b) == [t |-> "bool", v |-> b]

JInt(n) == [t |-> "int", v |-> n]

\* An integer literal too large in magnitude for a double (Python ints are
\* unbounded, so json.load accepts it).
JBigInt(negative) == [t |-> "bigint", neg |-> negative]

JStr == [t |-> "str"]

JList == [t |-> "list"]

\* A JSON object: m is a function from its keys to their values.
JObj(m) == [t |-> "obj", m |-> m]

EmptyDict == [k \in {} |-> JNull]

Unset == [t |-> "unset"]

\* The result of a call that raised: no value, the exception's name.
Raise(e) == [t |-> "raise", exc |-> e]

Raised(r) == r.t = "raise"

\* A variant subscripting (d[key]) instead of calling get.
Get_Subscript(d, key, default) ==
    IF d.t /= "obj" THEN Raise("TypeError")
    ELSE IF key \in DOMAIN d.m THEN d.m[key]
    ELSE Raise("KeyError")

\* dict.get(key, default); on anything but a dict the attribute lookup fails.
Get(d, key, default) ==
    IF d.t /= "obj" THEN Raise("AttributeError")
    ELSE IF key \in DOMAIN d.m THEN d.m[key]
    ELSE default

\* A variant testing truth ("if not x") instead of identity with None.
IsNone_Falsy(x) ==
    \/ x.t = "null"
    \/ x.t = "int" /\ x.v = 0
    \/ x.t = "bool" /\ ~x.v

\* x is None
IsNone(x) == x.t = "null"

NsPerMs == 1000000

\* mean_ns / 1_000_000.0
TrueDiv(x) ==
    CASE x.t = "int" -> Float(x.v, NsPerMs)
      [] x.t = "bool" -> Float(IF x.v THEN 1 ELSE 0, NsPerMs)
      [] x.t = "bigint" -> Raise("OverflowError")
      [] OTHER -> Raise("TypeError")

(***************************************************************************)
(* The file system                                                         *)
(***************************************************************************)
Missing == [kind |-> "missing", text |-> Unset]

Directory == [kind |-> "dir", text |-> Unset]

\* A regular file the process may not read.
Unreadable == [kind |-> "noperm", text |-> Unset]

\* A readable regular file; text is what json.load makes of its content.
File(v) == [kind |-> "file", text |-> v]

\* A file whose content is not JSON.
NotJson == Raise("JSONDecodeError")

Estimates(pe) == JObj([mean |-> JObj([point_estimate |-> pe])])

\* os.path.exists(p)
Exists(f, p) ==
    /\ Canonical(p) \in DOMAIN f
    /\ f[Canonical(p)].kind /= "missing"

\* with open(p, "r") as f: json.load(f)
Load(f, p) ==
    LET st == IF Canonical(p) \in DOMAIN f THEN f[Canonical(p)] ELSE Missing
    IN  CASE st.kind = "missing" -> Raise("FileNotFoundError")
          [] st.kind = "dir" -> Raise("IsADirectoryError")
          [] st.kind = "noperm" -> Raise("PermissionError")
          [] OTHER -> st.text

(***************************************************************************)
(* The command line                                                        *)
(*                                                                         *)
(* argv.name, argv.threshold and argv.path are <<>> (the flag is not       *)
(* given) or <<s>> (given with the string s); argv.help says whether       *)
(* --help is given, and on which side of --threshold-ms.                   *)
(***************************************************************************)
DefaultName == <<"engine_render_default">>

DefaultThresholdMs == 50

\* float(s), the type= of --threshold-ms
ParseFloat(s) ==
    CASE s = "-1" -> Float(-1, 1)
      [] s = "0" -> Float(0, 1)
      [] s = "49.5" -> Float(99, 2)
      [] s = "50" -> Float(50, 1)
      [] s = "nan" -> NaN
      [] OTHER -> Raise("ValueError")

NoArgs == [name |-> <<>>, threshold_ms |-> NoFloat, path |-> <<>>]

\* parser.parse_args(): the options are taken from left to right, so --help
\* ends the run unless a value rejected earlier already has.
ParseArgsResult(av) ==
    LET thr == IF av.threshold = <<>> THEN Float(DefaultThresholdMs, 1)
               ELSE ParseFloat(av.threshold[1])
        ns == [name |-> IF av.name = <<>> THEN DefaultName ELSE av.name[1],
               threshold_ms |-> thr,
               path |-> av.path]
    IN  IF av.help = "before" THEN [kind |-> "help", ns |-> NoArgs]
        ELSE IF Raised(thr) THEN [kind |-> "error", ns |-> NoArgs]
        ELSE IF av.help = "after" THEN [kind |-> "help", ns |-> NoArgs]
        ELSE [kind |-> "ok", ns |-> ns]

\* os.path.join("target", "criterion", args.name, "new", "estimates.json")
DefaultPath(name) ==
    Join(<< <<"target">>, <<"criterion">>, name, <<"new">>, <<"estimates.json">> >>)

\* A variant that always derives the path from the name.
ResolvedPath_FromName(a) == DefaultPath(a.name)

\* The value of args.path after "if args.path is None: args.path = ...".
ResolvedPath(a) == IF a.path = <<>> THEN DefaultPath(a.name) ELSE a.path[1]

(***************************************************************************)
(* Printed lines                                                           *)
(***************************************************************************)
HelpText == [stream |-> "stdout", kind |-> "help"]

UsageLine == [stream |-> "stderr", kind |-> "usage"]

ArgErrorLine == [stream |-> "stderr", kind |-> "argument_error"]

NotFoundLine(p) == [stream |-> "stdout", kind |-> "not_found", path |-> p]

NoFieldLine == [stream |-> "stdout", kind |-> "no_point_estimate"]

MeanLine(m, t) == [stream |-> "stdout", kind |-> "mean", mean_ms |-> m, threshold |-> t]

FailLine == [stream |-> "stdout", kind |-> "FAIL"]

OkLine == [stream |-> "stdout", kind |-> "OK"]

Traceback(e) == [stream |-> "stderr", kind |-> "traceback", exc |-> e]

ExistsCall(p) == [call |-> "exists", path |-> p]

OpenCall(p) == [call |-> "open", path |-> p]

(***************************************************************************)
(* The inputs the model draws from                                         *)
(***************************************************************************)
\* --name values: a plain name and one that starts with the separator.
Names == { <<"b">>, <<Sep, "b">> }

ExplicitPaths == { <<"e.json">> }

ThresholdStrings == {"-1", "0", "49.5", "50", "nan", "abc"}

Option(S) == {<<>>} \cup {<<x>> : x \in S}

CommandLines ==
    [help : {"no", "before", "after"},
     name : Option(Names),
     threshold : Option(ThresholdStrings),
     path : Option(ExplicitPaths)]

\* The paths of the file system the runs can name.
Files ==
    {Canonical(DefaultPath(n)) : n \in Names \cup {DefaultName}} \cup ExplicitPaths

MeanValues == {0, 40000000, 50000000, 50000001, 60000000}

PointEstimates ==
    {JNull, JStr, JBool(TRUE), JBigInt(TRUE), JBigInt(FALSE)}
        \cup {JInt(n) : n \in MeanValues}

Texts ==
    {NotJson, JList, JObj(EmptyDict), JObj([mean |-> JNull]),
     JObj([mean |-> JInt(5)]), JObj([mean |-> JObj(EmptyDict)])}
        \cup {Estimates(pe) : pe \in PointEstimates}

FileStates == {Directory, Unreadable} \cup {File(v) : v \in Texts}

\* The file systems in which only paths of `files` hold something, each a
\* state of `states`, and at most k of them do.
FileSystems(files, states, k) ==
    {f \in [Files -> states \cup {Missing}] :
        /\ \A p \in Files \ files : f[p] = Missing
        /\ Cardinality({p \in Files : f[p] /= Missing}) <= k}

\* The smaller inputs of the specification of repeated invocations.
SeqCommandLines ==
    [help : {"no"},
     name : Option(Names),
     threshold : Option({"49.5"}),
     path : Option(ExplicitPaths)]

SeqFiles == ExplicitPaths \cup {Canonical(DefaultPath(<<"b">>))}

SeqFileStates ==
    {Directory, File(NotJson), File(Estimates(JInt(50000000)))}

SeqFileSystems == FileSystems(SeqFiles, SeqFileStates, Cardinality(SeqFiles))

(***************************************************************************)
(* One invocation: main()                                                  *)
(***************************************************************************)
\* The state of a process that has not run a statement yet.
Fresh ==
    /\ args = NoArgs
    /\ data = Unset
    /\ mean_ns = Unset
    /\ mean_ms = NoFloat
    /\ out = <<>>
    /\ exit = <<>>
    /\ trace = <<>>

\* The next state is that of a process that has not run a statement yet.
Reset ==
    /\ args' = NoArgs
    /\ data' = Unset
    /\ mean_ns' = Unset
    /\ mean_ms' = NoFloat
    /\ out' = <<>>
    /\ exit' = <<>>
    /\ trace' = <<>>

\* print(...) and return code: sys.exit(main()) ends the process with it.
Return(lines, code) ==
    /\ out' = out \o lines
    /\ exit' = <<code>>
    /\ pc' = "done"

\* An exception main() does not catch: traceback, exit status 1.
Crash(e) == Return(<<Traceback(e)>>, 1)

\* args = parser.parse_args()
ParseArgs ==
    /\ pc = "parse"
    /\ LET r == ParseArgsResult(argv)
       IN  CASE r.kind = "help" ->
                  /\ Return(<<HelpText>>, 0)
                  /\ UNCHANGED args
             [] r.kind = "error" ->
                  /\ Return(<<UsageLine, ArgErrorLine>>, 2)
                  /\ UNCHANGED args
             [] OTHER ->
                  /\ args' = r.ns
                  /\ pc' = "resolve"
                  /\ UNCHANGED <<out, exit>>
    /\ UNCHANGED <<fs, argv, data, mean_ns, mean_ms, trace, memo>>

\* if args.path is None: args.path = os.path.join(...)
ResolvePath ==
    /\ pc = "resolve"
    /\ args' = [args EXCEPT !.path = <<ResolvedPath(args)>>]
    /\ pc' = "exists"
    /\ UNCHANGED <<fs, argv, data, mean_ns, mean_ms, out, exit, trace, memo>>

\* A variant without the existence test.
CheckExists_Skipped ==
    /\ pc = "exists"
    /\ pc' = "read"
    /\ UNCHANGED <<fs, argv, args, data, mean_ns, mean_ms, out, exit, trace, memo>>

\* if not os.path.exists(args.path): print(...); return 2
CheckExists ==
    /\ pc = "exists"
    /\ trace' = Append(trace, ExistsCall(args.path[1]))
    /\ IF Exists(fs, args.path[1])
       THEN /\ pc' = "read"
            /\ UNCHANGED <<out, exit>>
       ELSE Return(<<NotFoundLine(args.path[1])>>, 2)
    /\ UNCHANGED <<fs, argv, args, data, mean_ns, mean_ms, memo>>

\* A variant that opens the file with mode "w": the open empties a regular
\* file, and json.load is refused the read.
ReadFile_Truncate ==
    /\ pc = "read"
    /\ trace' = Append(trace, OpenCall(args.path[1]))
    /\ LET p == Canonical(args.path[1])
       IN  IF fs[p].kind = "file"
           THEN /\ fs' = [fs EXCEPT ![p] = File(NotJson)]
                /\ Crash("UnsupportedOperation")
           ELSE /\ fs' = fs
                /\ Crash(Load(fs, p).exc)
    /\ UNCHANGED <<argv, args, data, mean_ns, mean_ms, memo>>

\* with open(args.path, "r") as f: data = json.load(f)
ReadFile ==
    /\ pc = "read"
    /\ trace' = Append(trace, OpenCall(args.path[1]))
    /\ LET r == Load(fs, args.path[1])
       IN  IF Raised(r)
           THEN /\ Crash(r.exc)
                /\ UNCHANGED data
           ELSE /\ data' = r
                /\ pc' = "extract"
                /\ UNCHANGED <<out, exit>>
    /\ UNCHANGED <<fs, argv, args, mean_ns, mean_ms, memo>>

\* data.get("mean", {}).get("point_estimate")
PointEstimate(d) ==
    LET mean == Get(d, "mean", JObj(EmptyDict))
    IN  IF Raised(mean) THEN mean ELSE Get(mean, "point_estimate", JNull)

\* mean_ns = ...; if mean_ns is None: print(...); return 3
Extract ==
    /\ pc = "extract"
    /\ LET r == PointEstimate(data)
       IN  IF Raised(r)
           THEN /\ Crash(r.exc)
                /\ UNCHANGED mean_ns
           ELSE /\ mean_ns' = r
                /\ IF IsNone(r)
                   THEN Return(<<NoFieldLine>>, 3)
                   ELSE /\ pc' = "convert"
                        /\ UNCHANGED <<out, exit>>
    /\ UNCHANGED <<fs, argv, args, data, mean_ms, trace, memo>>

\* mean_ms = mean_ns / 1_000_000.0; threshold = args.threshold_ms
Convert ==
    /\ pc = "convert"
    /\ LET r == TrueDiv(mean_ns)
       IN  IF Raised(r)
           THEN /\ Crash(r.exc)
                /\ UNCHANGED mean_ms
           ELSE /\ mean_ms' = r
                /\ pc' = "report"
                /\ UNCHANGED <<out, exit>>
    /\ UNCHANGED <<fs, argv, args, data, mean_ns, trace, memo>>

\* print(f"mean: {mean_ms:.3f} ms (threshold {threshold:.3f} ms)")
Report ==
    /\ pc = "report"
    /\ out' = Append(out, MeanLine(mean_ms, args.threshold_ms))
    /\ pc' = "compare"
    /\ UNCHANGED <<fs, argv, args, data, mean_ns, mean_ms, exit, trace, memo>>

\* if mean_ms > threshold: print FAIL, return 1; print OK, return 0
Compare ==
    /\ pc = "compare"
    /\ IF FloatGT(mean_ms, args.threshold_ms)
       THEN Return(<<FailLine>>, 1)
       ELSE Return(<<OkLine>>, 0)
    /\ UNCHANGED <<fs, argv, args, data, mean_ns, mean_ms, trace, memo>>

Main ==
    \/ ParseArgs
    \/ ResolvePath
    \/ CheckExists
    \/ ReadFile
    \/ Extract
    \/ Convert
    \/ Report
    \/ Compare

(***************************************************************************)
(* A single invocation on any command line and file system                 *)
(***************************************************************************)
Init ==
    /\ fs \in FileSystems(Files, FileStates, MaxFiles)
    /\ argv \in CommandLines
    /\ pc = "parse"
    /\ Fresh
    /\ memo = <<>>

Next == Main

Spec == Init /\ [][Next]_vars

(***************************************************************************)
(* Repeated invocations, the file system changing only between them        *)
(***************************************************************************)
\* A new process is started on the command line a.
Invoke(a) ==
    /\ pc \in {"idle", "done"}
    /\ argv' = a
    /\ pc' = "parse"
    /\ Reset
    /\ memo' = IF memo = <<>> THEN memo ELSE <<[memo[1] EXCEPT !.old = TRUE]>>
    /\ UNCHANGED fs

\* Between two invocations the benchmarking tool, or anyone, rewrites the
\* file system; the ended process and what it printed are gone.
EnvWrite(f) ==
    /\ pc \in {"idle", "done"}
    /\ f /= fs
    /\ fs' = f
    /\ pc' = "idle"
    /\ Reset
    /\ UNCHANGED <<argv, memo>>

\* The observer keeps the invocation that has just ended; old says that
\* another process has been started since.
Remember ==
    /\ pc = "done"
    /\ memo' = <<[argv |-> argv, fs |-> fs, out |-> out, exit |-> exit,
                  old |-> FALSE]>>
    /\ memo' /= memo
    /\ UNCHANGED <<fs, argv, pc, args, data, mean_ns, mean_ms, out, exit, trace>>

InitSeq ==
    /\ fs \in SeqFileSystems
    /\ argv = [help |-> "no", name |-> <<>>, threshold |-> <<>>, path |-> <<>>]
    /\ pc = "idle"
    /\ Fresh
    /\ memo = <<>>

NextSeq ==
    \/ Main
    \/ \E a \in SeqCommandLines : Invoke(a)
    \/ \E f \in SeqFileSystems : EnvWrite(f)
    \/ Remember

SpecSeq == InitSeq /\ [][NextSeq]_vars

(***************************************************************************)
(* The vocabulary of the properties                                        *)
(***************************************************************************)
Done == pc = "done"

\* argparse accepts the command line: no --help, a threshold float() takes.
Accepted(av) ==
    /\ av.help = "no"
    /\ av.threshold = <<>> \/ ~Raised(ParseFloat(av.threshold[1]))

NameOf(av) == IF av.name = <<>> THEN DefaultName ELSE av.name[1]

ThresholdOf(av) ==
    IF av.threshold = <<>> THEN Float(50, 1) ELSE ParseFloat(av.threshold[1])

\* The path the run is to test and read, and what the file system holds there.
TargetPath(av) == IF av.path = <<>> THEN DefaultPath(NameOf(av)) ELSE av.path[1]

Target ==
    IF Canonical(TargetPath(argv)) \in DOMAIN fs
    THEN fs[Canonical(TargetPath(argv))] ELSE Missing

\* target/criterion/<name>/new/estimates.json, written out
Template(n) ==
    <<"target", Sep, "criterion", Sep>> \o n \o <<Sep, "new", Sep, "estimates.json">>

HasKey(v, k) == v.t = "obj" /\ k \in DOMAIN v.m

\* A JSON object without "mean", or whose "mean" is an object without
\* "point_estimate".
LacksPointEstimate(v) ==
    /\ v.t = "obj"
    /\ \/ ~HasKey(v, "mean")
       \/ v.m.mean.t = "obj" /\ ~HasKey(v.m.mean, "point_estimate")

HasPointEstimate(v) == HasKey(v, "mean") /\ HasKey(v.m.mean, "point_estimate")

\* {"mean": {"point_estimate": <number>}}
WellShaped(v) ==
    /\ HasPointEstimate(v)
    /\ v.m.mean.m.point_estimate.t \in {"int", "bigint"}

\* mean_ns / 1,000,000 > threshold, in exact arithmetic.
Exceeds(pe, thr) ==
    /\ thr.t = "num"
    /\ IF pe.t = "int" THEN pe.v * thr.den > thr.num * 1000000 ELSE ~pe.neg

Count(kind) == Cardinality({i \in 1..Len(out) : out[i].kind = kind})

Printed(kind) == Count(kind) > 0

SameResult(m) == m.out = out /\ m.exit = exit

(***************************************************************************)
(* C1 (stated on the command lines argparse accepts and on a resolved path *)
(* that holds nothing or a readable file).  A run ends with an exit code   *)
(* among 0, 1, 2, 3, and each code only on its condition: 0 only with a    *)
(* numeric mean within the threshold, 1 only with a numeric mean above it, *)
(* 2 only if the resolved file does not exist, 3 only if the file exists   *)
(* and is malformed.                                                       *)
(***************************************************************************)
C1_ExitCodeTaxonomy ==
    (Done /\ Accepted(argv) /\ Target.kind \in {"missing", "file"}) =>
        /\ exit \in {<<0>>, <<1>>, <<2>>, <<3>>}
        /\ exit = <<0>> =>
             /\ Target.kind = "file"
             /\ WellShaped(Target.text)
             /\ ~Exceeds(Target.text.m.mean.m.point_estimate, ThresholdOf(argv))
        /\ exit = <<1>> =>
             /\ Target.kind = "file"
             /\ WellShaped(Target.text)
             /\ Exceeds(Target.text.m.mean.m.point_estimate, ThresholdOf(argv))
        /\ exit = <<2>> => Target.kind = "missing"
        /\ exit = <<3>> => Target.kind = "file" /\ ~WellShaped(Target.text)

(***************************************************************************)
(* C2.  If the resolved file does not exist, the run (any name, any        *)
(* threshold string, path given or not; --help apart) ends with exit code  *)
(* 2, never opens a file and prints neither the mean line nor a verdict;   *)
(* and in every run an open of a path comes after the existence test of    *)
(* that path.                                                              *)
(***************************************************************************)
C2_MissingFileExitsTwo ==
    /\ (argv.help = "no" /\ Target.kind = "missing") =>
          /\ \A i \in 1..Len(trace) : trace[i].call /= "open"
          /\ ~Printed("mean") /\ ~Printed("FAIL") /\ ~Printed("OK")
          /\ Done => exit = <<2>>
    /\ \A i \in 1..Len(trace) :
          trace[i].call = "open" =>
              \E j \in 1..(i - 1) : trace[j] = ExistsCall(trace[i].path)

C2_Witness ==
    /\ Done
    /\ argv = [help |-> "no", name |-> << <<"b">> >>, threshold |-> <<"49.5">>,
               path |-> <<>>]
    /\ Target.kind = "missing"
    /\ exit = <<2>>
    /\ out = <<NotFoundLine(TargetPath(argv))>>
    /\ trace = <<ExistsCall(TargetPath(argv))>>

(***************************************************************************)
(* C3.  If the resolved file is a JSON object without "mean", or with a    *)
(* "mean" object without "point_estimate", then for every threshold the    *)
(* run never reaches the conversion or the comparison, and ends printing   *)
(* the diagnostic alone, with exit code 3.                                 *)
(***************************************************************************)
C3_MissingFieldExitsThree ==
    (Accepted(argv) /\ Target.kind = "file" /\ LacksPointEstimate(Target.text)) =>
        /\ pc \notin {"convert", "report", "compare"}
        /\ mean_ms = NoFloat
        /\ ~Printed("mean") /\ ~Printed("FAIL") /\ ~Printed("OK")
        /\ Done => exit = <<3>> /\ out = <<NoFieldLine>>

C3_Witness ==
    /\ Done
    /\ Accepted(argv)
    /\ argv.threshold = <<"-1">>
    /\ Target = File(JObj([mean |-> JObj(EmptyDict)]))
    /\ exit = <<3>>
    /\ out = <<NoFieldLine>>

(***************************************************************************)
(* C4.  If the resolved file exists as a readable file whose content is    *)
(* not of the shape {"mean": {"point_estimate": <number>}}, the run prints *)
(* the diagnostic and ends with exit code 3.                               *)
(***************************************************************************)
C4_MalformedExitsThree ==
    (Done /\ Accepted(argv) /\ Target.kind = "file" /\ ~WellShaped(Target.text)) =>
        /\ exit = <<3>>
        /\ Printed("no_point_estimate")

(***************************************************************************)
(* C5 (stated on the thresholds that are numbers).  If the resolved file    *)
(* holds a numeric mean.point_estimate, the run ends with exit code 1 if   *)
(* mean_ns / 1,000,000 is strictly greater than the threshold, and with    *)
(* exit code 0 otherwise (equality passes).                                *)
(***************************************************************************)
C5_ThresholdDecides ==
    ( /\ Done
      /\ Accepted(argv)
      /\ ThresholdOf(argv).t = "num"
      /\ Target.kind = "file"
      /\ WellShaped(Target.text) ) =>
        exit = IF Exceeds(Target.text.m.mean.m.point_estimate, ThresholdOf(argv))
               THEN <<1>> ELSE <<0>>

(***************************************************************************)
(* C6.  With no --path, every file the run tests or opens is the file      *)
(* target/criterion/<name>/new/estimates.json, <name> being --name or      *)
(* "engine_render_default"; with no --threshold-ms the threshold is 50.0.  *)
(***************************************************************************)
C6_DefaultPathAndThreshold ==
    /\ argv.path = <<>> =>
          \A i \in 1..Len(trace) :
              Canonical(trace[i].path) = Canonical(Template(NameOf(argv)))
    /\ (argv.threshold = <<>> /\ pc \in {"resolve", "exists", "read", "extract",
                                         "convert", "report", "compare"}) =>
          args.threshold_ms = Float(50, 1)

(***************************************************************************)
(* C7.  Invocations are deterministic and leave the file system alone: a   *)
(* run that ends on the same command line and the same file system as a    *)
(* remembered earlier run has printed the same lines and has the same exit *)
(* code, whatever ran in between; and no step of a run changes the file    *)
(* system.                                                                 *)
(***************************************************************************)
C7_Deterministic ==
    /\ []((Done /\ memo /= <<>> /\ memo[1].argv = argv /\ memo[1].fs = fs)
            => SameResult(memo[1]))
    /\ [][pc \notin {"idle", "done"} => fs' = fs]_vars

C7_Witness ==
    /\ Done
    /\ memo /= <<>>
    /\ memo[1].old
    /\ memo[1].argv = argv
    /\ memo[1].fs = fs
    /\ argv.path = <<>>
    /\ argv.threshold = <<"49.5">>
    /\ exit = <<1>>
    /\ SameResult(memo[1])

(***************************************************************************)
(* C8 (stated on the command lines argparse accepts and on a resolved path *)
(* that holds nothing or a readable file).  The mean line is printed       *)
(* exactly on the runs ending with exit code 0 or 1, once, and right       *)
(* before the one verdict line, which is FAIL iff the code is 1 and OK iff *)
(* it is 0; a run ending with 2 or 3 prints one diagnostic line and        *)
(* nothing else.                                                           *)
(***************************************************************************)
C8_OutputFollowsExit ==
    (Done /\ Accepted(argv) /\ Target.kind \in {"missing", "file"}) =>
        /\ exit \in {<<0>>, <<1>>} <=> Printed("mean")
        /\ exit = <<1>> <=> Printed("FAIL")
        /\ exit = <<0>> <=> Printed("OK")
        /\ exit \in {<<0>>, <<1>>} =>
             /\ Len(out) = 2
             /\ out[1].kind = "mean"
             /\ out[2].kind \in {"FAIL", "OK"}
        /\ exit \in {<<2>>, <<3>>} =>
             /\ Len(out) = 1
             /\ out[1].kind \in {"not_found", "no_point_estimate"}

(***************************************************************************)
(* C9.  A point_estimate of 0 is a measurement: the run prints the mean    *)
(* line and a verdict, never ends with exit code 3, and ends with 0 for    *)
(* every threshold >= 0.  Exit code 3 is only reached when the field is    *)
(* absent or null.                                                         *)
(***************************************************************************)
C9_ZeroIsAMeasurement ==
    /\ (Accepted(argv) /\ Target = File(Estimates(JInt(0)))) =>
          /\ exit /= <<3>>
          /\ Done =>
               /\ Printed("mean")
               /\ exit \in {<<0>>, <<1>>}
               /\ (ThresholdOf(argv).t = "num" /\ ThresholdOf(argv).num >= 0)
                     => exit = <<0>>
    /\ exit = <<3>> =>
          /\ Target.kind = "file"
          /\ \/ LacksPointEstimate(Target.text)
             \/ /\ HasPointEstimate(Target.text)
                /\ Target.text.m.mean.m.point_estimate = JNull

C9_Witness ==
    /\ Done
    /\ argv.help = "no"
    /\ argv.threshold = <<"0">>
    /\ Target = File(Estimates(JInt(0)))
    /\ out = <<MeanLine(Float(0, 1000000), Float(0, 1)), OkLine>>
    /\ exit = <<0>>

(***************************************************************************)
(* C10.  With --path given, that path is the only one tested or opened,    *)
(* and --name has no effect: a run that ends on the same path, threshold   *)
(* and file system as a remembered earlier run has printed the same lines  *)
(* and has the same exit code, whatever the two names.                     *)
(***************************************************************************)
C10_NameIgnoredWithPath ==
    /\ argv.path /= <<>> =>
          \A i \in 1..Len(trace) : trace[i].path = argv.path[1]
    /\ ( /\ Done
         /\ memo /= <<>>
         /\ argv.path /= <<>>
         /\ memo[1].argv.path = argv.path
         /\ memo[1].argv.threshold = argv.threshold
         /\ memo[1].argv.help = argv.help
         /\ memo[1].fs = fs )
          => SameResult(memo[1])

C10_Witness ==
    /\ Done
    /\ memo /= <<>>
    /\ memo[1].old
    /\ argv.path /= <<>>
    /\ memo[1].argv.path = argv.path
    /\ memo[1].argv.threshold = argv.threshold
    /\ memo[1].argv.name = << <<"b">> >>
    /\ argv.name = <<>>
    /\ memo[1].fs = fs
    /\ fs[Canonical(DefaultPath(<<"b">>))] = File(NotJson)
    /\ fs[argv.path[1]] = File(Estimates(JInt(50000000)))
    /\ trace = <<ExistsCall(argv.path[1]), OpenCall(argv.path[1])>>
    /\ exit = <<0>>
    /\ SameResult(memo[1])

====
